---- MODULE Spec2Model ----
(***************************************************************************)
(* scripts/fix-broker-names.py: the broker-name backfill script.           *)
(*                                                                         *)
(* The script opens a session, scans the trips table once, and for every   *)
(* returned item looks its brokerId up in BROKER_NAMES and, when mapped,   *)
(* calls update_item to SET brokerName on the key (TRIP#<tripId>,          *)
(* METADATA).  The store is modelled by what the two calls do: scan        *)
(* returns one response page of the table, update_item with an             *)
(* UpdateExpression and no ConditionExpression writes the attribute on the *)
(* addressed key and creates the item when the key holds none.             *)
(***************************************************************************)
EXTENDS Integers, Sequences, FiniteSets, TLC

\* Number of trip identifiers (and so of keys TRIP#1 .. TRIP#NumTrips).
NumTrips == 2

\* Number of records another writer may delete while a run is in its loop.
MaxDeletes == 1

VARIABLES
  table,     \* the trips table: key -> attributes (other than PK, SK)
  pc,        \* the script's position
  exc,       \* the exception that ended the script, "none" while it runs
  trips,     \* response['Items'] (line 52)
  i,         \* number of items of trips the for loop has finished
  updated,   \* line 57
  failed,    \* line 58
  inflight,  \* requests sent to the store and not yet answered
  log,       \* history: every request sent and every answer received
  hist,      \* history: per finished item, the branch that counted it
  summary,   \* the printed "Updated: / Failed:" lines, NoSummary before
  pre,       \* history: the table when the run started
  deleted,   \* history: keys another writer deleted during the run
  run,       \* "first" or "second" run of the script
  prev       \* history: how the first run ended (second run only)

vars == <<table, pc, exc, trips, i, updated, failed, inflight, log, hist,
          summary, pre, deleted, run, prev>>

----------------------------------------------------------------------------
\* Data

TripIds == 1..NumTrips

\* lines 12-33
BROKER_NAMES ==
  [b \in {"broker-001", "broker-002", "broker-003", "broker-004",
          "broker-005", "broker-006", "broker-007", "broker-008",
          "broker-009", "broker-010", "broker-011", "broker-012",
          "broker-013", "broker-014", "broker-015", "broker-016",
          "broker-017", "broker-018", "broker-019", "broker-020"} |->
     CASE b = "broker-001" -> "C.H. Robinson"
       [] b = "broker-002" -> "XPO Logistics"
       [] b = "broker-003" -> "TQL (Total Quality Logistics)"
       [] b = "broker-004" -> "Coyote Logistics"
       [] b = "broker-005" -> "Echo Global Logistics"
       [] b = "broker-006" -> "Landstar System"
       [] b = "broker-007" -> "J.B. Hunt Transport Services"
       [] b = "broker-008" -> "Schneider National"
       [] b = "broker-009" -> "Werner Enterprises"
       [] b = "broker-010" -> "Knight-Swift Transportation"
       [] b = "broker-011" -> "Hub Group"
       [] b = "broker-012" -> "Transplace"
       [] b = "broker-013" -> "Arrive Logistics"
       [] b = "broker-014" -> "GlobalTranz"
       [] b = "broker-015" -> "Convoy"
       [] b = "broker-016" -> "Uber Freight"
       [] b = "broker-017" -> "Loadsmart"
       [] b = "broker-018" -> "Freightos"
       [] b = "broker-019" -> "Flexport"
       [] b = "broker-020" -> "Redwood Logistics"]

\* BROKER_NAMES.get(broker_id), line 65: None when the key is absent.
None == "None"

BrokerNamesGet(broker_id) ==
  IF broker_id \in DOMAIN BROKER_NAMES THEN BROKER_NAMES[broker_id] ELSE None

\* `not broker_name`, line 67: None and the empty string are falsy.
Falsy(broker_name) == broker_name = None \/ broker_name = ""

\* The Key argument of update_item, lines 78-81.
UpdateKey(trip_id) == [PK |-> <<"TRIP#", trip_id>>, SK |-> "METADATA"]

Keys == {UpdateKey(t) : t \in TripIds}

\* brokerId values the stored records draw from: mapped and unmapped.
StoredBrokerIds == {"broker-001", "broker-999"}

\* A stored record's attributes (PK and SK apart).  status stands for the
\* attributes the upstream system owns; tripId, brokerId and brokerName may
\* each be missing, and tripId need not be the one the key is built from.
StoredItems ==
  UNION {
    UNION {
      { [a \in {"status"} \cup D |->
           CASE a = "status" -> "Scheduled"
             [] a = "tripId" -> t
             [] a = "brokerId" -> b
             [] a = "brokerName" -> "stale"] : D \in SUBSET {"tripId", "brokerId", "brokerName"} }
      : b \in StoredBrokerIds }
    : t \in TripIds }

Tables == UNION { [K -> StoredItems] : K \in SUBSET Keys }

\* An item as scan returns it: the stored attributes and the key attributes.
ScanItem(t, k) ==
  [a \in DOMAIN t[k] \cup {"PK", "SK"} |->
     IF a = "PK" THEN k.PK ELSE IF a = "SK" THEN k.SK ELSE t[k][a]]

\* The keys of a table in the order scan walks them.
RECURSIVE KeySeq(_, _)
KeySeq(t, n) ==
  IF n = 0 THEN <<>>
  ELSE LET rest == KeySeq(t, n - 1)
       IN IF UpdateKey(n) \in DOMAIN t THEN Append(rest, UpdateKey(n)) ELSE rest

\* dynamodb.scan(TableName=TRIPS_TABLE)['Items'], lines 51-52: one response
\* page, the first n items of the table.
ScanItems(t, n) ==
  LET ks == KeySeq(t, NumTrips)
  IN [j \in 1..n |-> ScanItem(t, ks[j])]

\* The page sizes one response can have: the whole table, or a shorter page
\* when the response size limit cuts it (never an empty page of a non-empty
\* table).
PageSizes(t) ==
  LET c == Cardinality(DOMAIN t)
  IN IF c = 0 THEN {0} ELSE 1..c

\* update_item with SET brokerName = :brokerName and no condition, lines
\* 76-86: writes the attribute on the addressed key, creating the item (key
\* attributes and brokerName only) when the key holds none.
UpdateItem(t, key, broker_name) ==
  IF key \in DOMAIN t
    THEN [t EXCEPT ![key] =
            [a \in DOMAIN t[key] \cup {"brokerName"} |->
               IF a = "brokerName" THEN broker_name ELSE t[key][a]]]
    ELSE [k \in DOMAIN t \cup {key} |->
            IF k = key THEN [brokerName |-> broker_name] ELSE t[k]]

NoSummary == [printed |-> FALSE]

----------------------------------------------------------------------------
\* The script

Init ==
  /\ table \in Tables
  /\ pc = "session"
  /\ exc = "none"
  /\ trips = <<>>
  /\ i = 0
  /\ updated = 0
  /\ failed = 0
  /\ inflight = {}
  /\ log = <<>>
  /\ hist = <<>>
  /\ summary = NoSummary
  /\ pre = table
  /\ deleted = {}
  /\ run = "first"
  /\ prev = [pc |-> "none"]

\* lines 44-45: the session and the client are created.
CreateSession ==
  /\ pc = "session"
  /\ pc' = "scan"
  /\ UNCHANGED <<table, exc, trips, i, updated, failed, inflight, log, hist,
                 summary, pre, deleted, run, prev>>

\* lines 44-45 raise (unknown profile, no credentials): nothing catches it.
CreateSessionRaises ==
  /\ pc = "session"
  /\ pc' = "crashed"
  /\ exc' = "SessionError"
  /\ UNCHANGED <<table, trips, i, updated, failed, inflight, log, hist,
                 summary, pre, deleted, run, prev>>

\* line 51: the scan request is sent.
ScanCall ==
  /\ pc = "scan"
  /\ inflight' = inflight \cup {[op |-> "scan"]}
  /\ log' = Append(log, [ev |-> "call", op |-> "scan", idx |-> 0])
  /\ pc' = "scan_wait"
  /\ UNCHANGED <<table, exc, trips, i, updated, failed, hist, summary, pre,
                 deleted, run, prev>>

\* lines 51-57: the scan response arrives; trips is its Items.
ScanReturn ==
  /\ pc = "scan_wait"
  /\ [op |-> "scan"] \in inflight
  /\ \E n \in PageSizes(table) : trips' = ScanItems(table, n)
  /\ inflight' = inflight \ {[op |-> "scan"]}
  /\ log' = Append(log, [ev |-> "ack", op |-> "scan", idx |-> 0])
  /\ updated' = 0
  /\ failed' = 0
  /\ pc' = "loop"
  /\ UNCHANGED <<table, exc, i, hist, summary, pre, deleted, run, prev>>

\* Mutant of ScanRaises: the error is swallowed and the loop runs over no
\* items.
ScanRaises_Swallowed ==
  /\ pc = "scan_wait"
  /\ [op |-> "scan"] \in inflight
  /\ inflight' = inflight \ {[op |-> "scan"]}
  /\ log' = Append(log, [ev |-> "err", op |-> "scan", idx |-> 0])
  /\ trips' = <<>>
  /\ pc' = "loop"
  /\ UNCHANGED <<table, exc, i, updated, failed, hist, summary, pre,
                 deleted, run, prev>>

\* line 51 raises: nothing catches it.
ScanRaises ==
  /\ pc = "scan_wait"
  /\ [op |-> "scan"] \in inflight
  /\ inflight' = inflight \ {[op |-> "scan"]}
  /\ log' = Append(log, [ev |-> "err", op |-> "scan", idx |-> 0])
  /\ pc' = "crashed"
  /\ exc' = "ScanError"
  /\ UNCHANGED <<table, trips, i, updated, failed, hist, summary, pre,
                 deleted, run, prev>>

\* The item the for loop is at (line 60).
trip == trips[i + 1]

\* lines 61-62: trip['tripId'] or trip['brokerId'] raises KeyError, outside
\* the try statement.
ItemKeyError ==
  /\ pc = "loop"
  /\ i < Len(trips)
  /\ ("tripId" \notin DOMAIN trip \/ "brokerId" \notin DOMAIN trip)
  /\ pc' = "crashed"
  /\ exc' = "KeyError"
  /\ UNCHANGED <<table, trips, i, updated, failed, inflight, log, hist,
                 summary, pre, deleted, run, prev>>

\* lines 61-70: no broker name for the item's brokerId.
ItemUnmapped ==
  /\ pc = "loop"
  /\ i < Len(trips)
  /\ "tripId" \in DOMAIN trip
  /\ "brokerId" \in DOMAIN trip
  /\ Falsy(BrokerNamesGet(trip["brokerId"]))
  /\ failed' = failed + 1
  /\ hist' = Append(hist, "warning")
  /\ i' = i + 1
  /\ UNCHANGED <<table, pc, exc, trips, updated, inflight, log, summary, pre,
                 deleted, run, prev>>

\* Mutant of UpdateCall: the request is sent and not awaited; the loop moves
\* on to the next item.
UpdateCall_NotAwaited ==
  /\ pc = "loop"
  /\ i < Len(trips)
  /\ "tripId" \in DOMAIN trip
  /\ "brokerId" \in DOMAIN trip
  /\ ~Falsy(BrokerNamesGet(trip["brokerId"]))
  /\ inflight' = inflight \cup
       {[op |-> "update", idx |-> i + 1, Key |-> UpdateKey(trip["tripId"]),
         brokerName |-> BrokerNamesGet(trip["brokerId"])]}
  /\ log' = Append(log, [ev |-> "call", op |-> "update", idx |-> i + 1])
  /\ updated' = updated + 1
  /\ hist' = Append(hist, "updated")
  /\ i' = i + 1
  /\ UNCHANGED <<table, pc, exc, trips, failed, summary, pre, deleted, run,
                 prev>>

\* lines 61-86: the update request for the item is sent.
UpdateCall ==
  /\ pc = "loop"
  /\ i < Len(trips)
  /\ "tripId" \in DOMAIN trip
  /\ "brokerId" \in DOMAIN trip
  /\ ~Falsy(BrokerNamesGet(trip["brokerId"]))
  /\ inflight' = inflight \cup
       {[op |-> "update", idx |-> i + 1, Key |-> UpdateKey(trip["tripId"]),
         brokerName |-> BrokerNamesGet(trip["brokerId"])]}
  /\ log' = Append(log, [ev |-> "call", op |-> "update", idx |-> i + 1])
  /\ pc' = "update_wait"
  /\ UNCHANGED <<table, exc, trips, i, updated, failed, hist, summary, pre,
                 deleted, run, prev>>

\* lines 76-88: the store applies the update and acknowledges it.
UpdateAck ==
  /\ pc = "update_wait"
  /\ \E r \in inflight :
       /\ r.op = "update"
       /\ r.idx = i + 1
       /\ table' = UpdateItem(table, r.Key, r.brokerName)
       /\ inflight' = inflight \ {r}
       /\ log' = Append(log, [ev |-> "ack", op |-> "update", idx |-> r.idx])
  /\ updated' = updated + 1
  /\ hist' = Append(hist, "updated")
  /\ i' = i + 1
  /\ pc' = "loop"
  /\ UNCHANGED <<exc, trips, failed, summary, pre, deleted, run, prev>>

\* Mutant of UpdateRaises: the except clause forgets failed += 1.
UpdateRaises_Uncounted ==
  /\ pc = "update_wait"
  /\ \E r \in inflight :
       /\ r.op = "update"
       /\ r.idx = i + 1
       /\ inflight' = inflight \ {r}
       /\ log' = Append(log, [ev |-> "err", op |-> "update", idx |-> r.idx])
  /\ hist' = Append(hist, "failed")
  /\ i' = i + 1
  /\ pc' = "loop"
  /\ UNCHANGED <<table, exc, trips, updated, failed, summary, pre, deleted,
                 run, prev>>

\* Mutant of UpdateRaises: the first error of an item is retried; only the
\* second is counted.
UpdateRaises_Retried ==
  /\ pc = "update_wait"
  /\ \E r \in inflight :
       /\ r.op = "update"
       /\ r.idx = i + 1
       /\ inflight' = inflight \ {r}
       /\ log' = Append(log, [ev |-> "err", op |-> "update", idx |-> r.idx])
       /\ IF \A p \in 1..Len(log) : ~(log[p].ev = "err" /\ log[p].idx = r.idx)
            THEN UNCHANGED <<failed, hist, i>>
            ELSE /\ failed' = failed + 1
                 /\ hist' = Append(hist, "failed")
                 /\ i' = i + 1
  /\ pc' = "loop"
  /\ UNCHANGED <<table, exc, trips, updated, summary, pre, deleted, run, prev>>

\* lines 76-91: update_item raises; the except clause counts the item.
UpdateRaises ==
  /\ pc = "update_wait"
  /\ \E r \in inflight :
       /\ r.op = "update"
       /\ r.idx = i + 1
       /\ inflight' = inflight \ {r}
       /\ log' = Append(log, [ev |-> "err", op |-> "update", idx |-> r.idx])
  /\ failed' = failed + 1
  /\ hist' = Append(hist, "failed")
  /\ i' = i + 1
  /\ pc' = "loop"
  /\ UNCHANGED <<table, exc, trips, updated, summary, pre, deleted, run, prev>>

\* lines 93-99: the loop is over; the summary is printed.
PrintSummary ==
  /\ pc = "loop"
  /\ i = Len(trips)
  /\ summary' = [printed |-> TRUE, updated |-> updated, failed |-> failed]
  /\ pc' = "done"
  /\ UNCHANGED <<table, exc, trips, i, updated, failed, inflight, log, hist,
                 pre, deleted, run, prev>>

\* Another writer deletes a record between the scan and a later update
\* (line 76 carries no ConditionExpression that would notice).
ExternalDelete ==
  /\ pc \in {"loop", "update_wait"}
  /\ Cardinality(deleted) < MaxDeletes
  /\ \E k \in DOMAIN table \ deleted :
       /\ table' = [x \in DOMAIN table \ {k} |-> table[x]]
       /\ deleted' = deleted \cup {k}
  /\ UNCHANGED <<pc, exc, trips, i, updated, failed, inflight, log, hist,
                 summary, pre, run, prev>>

\* The script is run again after it ended.
RunAgain ==
  /\ pc \in {"done", "crashed"}
  /\ run = "first"
  /\ run' = "second"
  /\ prev' = [pc |-> pc, exc |-> exc, updated |-> updated, failed |-> failed,
              hist |-> hist, table |-> table, deleted |-> deleted, log |-> log,
              full |-> Len(trips) = Cardinality(DOMAIN pre)]
  /\ pc' = "session"
  /\ exc' = "none"
  /\ trips' = <<>>
  /\ i' = 0
  /\ updated' = 0
  /\ failed' = 0
  /\ inflight' = {}
  /\ log' = <<>>
  /\ hist' = <<>>
  /\ summary' = NoSummary
  /\ pre' = table
  /\ deleted' = {}
  /\ UNCHANGED table

\* A step of the script itself (any step but another writer's).
RunStep ==
  \/ CreateSession
  \/ CreateSessionRaises
  \/ ScanCall
  \/ ScanReturn
  \/ ScanRaises
  \/ ItemKeyError
  \/ ItemUnmapped
  \/ UpdateCall
  \/ UpdateAck
  \/ UpdateRaises
  \/ PrintSummary

Next ==
  \/ CreateSession
  \/ CreateSessionRaises
  \/ ScanCall
  \/ ScanReturn
  \/ ScanRaises
  \/ ItemKeyError
  \/ ItemUnmapped
  \/ UpdateCall
  \/ UpdateAck
  \/ UpdateRaises
  \/ PrintSummary
  \/ ExternalDelete

\* One run of the script.
Spec == Init /\ [][Next]_vars

NextTwice ==
  \/ CreateSession
  \/ CreateSessionRaises
  \/ ScanCall
  \/ ScanReturn
  \/ ScanRaises
  \/ ItemKeyError
  \/ ItemUnmapped
  \/ UpdateCall
  \/ UpdateAck
  \/ UpdateRaises
  \/ PrintSummary
  \/ ExternalDelete
  \/ RunAgain

\* Two runs of the script in succession.
SpecTwice == Init /\ [][NextTwice]_vars

----------------------------------------------------------------------------
\* Readings of the state used by the properties

Absent == "<absent>"

\* A record's brokerName in table t, Absent when the record or the attribute
\* is missing.
BrokerNameOf(t, k) ==
  IF k \in DOMAIN t /\ "brokerName" \in DOMAIN t[k] THEN t[k]["brokerName"] ELSE Absent

\* A record without its brokerName attribute.
OtherAttributes(item) == [a \in DOMAIN item \ {"brokerName"} |-> item[a]]

\* The key a scanned item is stored under.
StoredKey(item) == [PK |-> item["PK"], SK |-> item["SK"]]

HasIds(item) == "tripId" \in DOMAIN item /\ "brokerId" \in DOMAIN item

Mapped(item) == HasIds(item) /\ item["brokerId"] \in DOMAIN BROKER_NAMES

Unmapped(item) == HasIds(item) /\ item["brokerId"] \notin DOMAIN BROKER_NAMES

Events(l, ev, op, idx) ==
  {p \in 1..Len(l) : l[p].ev = ev /\ l[p].op = op /\ l[p].idx = idx}

UpdateEvents(l, ev) == {p \in 1..Len(l) : l[p].ev = ev /\ l[p].op = "update"}

Counted(kind) == Cardinality({j \in 1..Len(hist) : hist[j] = kind})

ScanReturned == Events(log, "ack", "scan", 0) # {}

StartupFailure == exc = "SessionError" \/ Events(log, "err", "scan", 0) # {}

----------------------------------------------------------------------------
\* Properties

\* C1: after a run, every record of the table whose brokerId is a key of
\* BROKER_NAMES has brokerName = BROKER_NAMES[brokerId].  Stated for the runs
\* most favourable to it: the summary was printed with failed = 0 and no
\* other writer touched the table.
C1_EveryMappedRecordNamed ==
  (pc = "done" /\ failed = 0 /\ deleted = {}) =>
    \A k \in DOMAIN table :
      ("brokerId" \in DOMAIN table[k] /\ table[k]["brokerId"] \in DOMAIN BROKER_NAMES)
        => BrokerNameOf(table, k) = BROKER_NAMES[table[k]["brokerId"]]

\* C2: for every scanned record whose brokerId is not in the mapping, no
\* update request is issued for it, failed is incremented once for it and
\* updated is not, and after the run its brokerName is its pre-run value.
C2_UnmappedRecordUntouched ==
  \A j \in 1..Len(hist) :
    Unmapped(trips[j]) =>
      /\ Events(log, "call", "update", j) = {}
      /\ hist[j] = "warning"
      /\ failed = Counted("warning") + Counted("failed")
      /\ updated = Counted("updated")
      /\ (pc = "done" /\ StoredKey(trips[j]) \notin deleted) =>
           BrokerNameOf(table, StoredKey(trips[j])) = BrokerNameOf(pre, StoredKey(trips[j]))

\* C3: when the summary is printed, updated + failed is the number of
\* records the scan returned, and each scanned record was counted in exactly
\* one of the two counters.
C3_CountsSumToScan ==
  summary.printed =>
    /\ summary.updated + summary.failed = Len(trips)
    /\ Len(hist) = Len(trips)
    /\ summary.updated = Counted("updated")
    /\ summary.failed = Counted("warning") + Counted("failed")

\* C3's case: a summary over a scan of which one record was updated and one
\* failed.
C3_Witness ==
  /\ summary.printed
  /\ summary.updated >= 1
  /\ summary.failed >= 1

\* C4: a second run classifies every record as the first did (same updated
\* and failed) and leaves the table as the first run left it.  Stated for
\* the runs most favourable to it: the first run printed its summary, both
\* scans returned the whole table, the store raised no error and no other
\* writer touched the table.
C4_SecondRunIdempotent ==
  ( /\ run = "second"
    /\ pc \in {"done", "crashed"}
    /\ exc \in {"none", "KeyError"}
    /\ prev.pc = "done"
    /\ prev.full
    /\ Len(trips) = Cardinality(DOMAIN pre)
    /\ prev.deleted = {} /\ deleted = {}
    /\ \A p \in 1..Len(prev.log) : prev.log[p].ev # "err"
    /\ \A p \in 1..Len(log) : log[p].ev # "err" )
  => /\ pc = "done"
     /\ updated = prev.updated
     /\ failed = prev.failed
     /\ hist = prev.hist
     /\ table = prev.table

\* C5: once the scan has returned, nothing that goes wrong with one item
\* ends the run: the loop goes on to the later items and the summary.
C5_ItemFailureNeverAborts ==
  ScanReturned => pc # "crashed"

\* C6: a run creates no record, deletes none and changes no attribute
\* other than brokerName: when it has ended, the keys of the table are the
\* pre-run keys (less those another writer deleted) and every record's other
\* attributes are its pre-run ones.
C6_OnlyBrokerNameWritten ==
  pc \in {"done", "crashed"} =>
    /\ DOMAIN table = DOMAIN pre \ deleted
    /\ \A k \in DOMAIN table \cap DOMAIN pre :
         OtherAttributes(table[k]) = OtherAttributes(pre[k])

\* C7: for every scanned record whose brokerId is mapped, updated is
\* incremented exactly when the store acknowledged its update request; when
\* the request raised, failed is incremented once, updated is not, the loop
\* continues, and the record's brokerName is at its pre-run value.
C7_UpdateOutcomeCounted ==
  \A j \in 1..Len(hist) :
    Mapped(trips[j]) =>
      /\ hist[j] = "updated" <=> Events(log, "ack", "update", j) # {}
      /\ hist[j] = "failed" <=> Events(log, "err", "update", j) # {}
      /\ hist[j] \in {"updated", "failed"}
      /\ updated = Counted("updated")
      /\ failed = Counted("warning") + Counted("failed")
      /\ i = Len(hist)
      /\ (hist[j] = "failed" /\ j = Len(hist) /\ StoredKey(trips[j]) \notin deleted) =>
           BrokerNameOf(table, StoredKey(trips[j])) = BrokerNameOf(pre, StoredKey(trips[j]))

\* C8: requests go to the store one at a time and in scan order: at most
\* one request is outstanding, every request follows the answer to the one
\* before it, the scan is the first and is answered before any update is
\* sent, and updates are sent in the order of the scan result.
C8_OneRequestAtATime ==
  /\ Cardinality(inflight) <= 1
  /\ \A p \in 1..Len(log) :
       /\ (p % 2 = 1) <=> log[p].ev = "call"
       /\ (p % 2 = 0) => (log[p].op = log[p - 1].op /\ log[p].idx = log[p - 1].idx)
       /\ (log[p].op = "scan") <=> p <= 2
       /\ \A q \in 1..Len(log) :
            (p < q /\ log[p].op = "update" /\ log[q].ev = "call") => log[p].idx < log[q].idx
  /\ (inflight # {}) <=> (Len(log) % 2 = 1)

\* C8's case: the update request of the second item is outstanding after
\* the first item's was answered.
C8_Witness ==
  /\ \E r \in inflight : r.op = "update" /\ r.idx = 2
  /\ Events(log, "call", "update", 1) # {}
  /\ Events(log, "ack", "update", 1) \cup Events(log, "err", "update", 1) # {}

\* C9: no retries: at most one update request per item of the scan result,
\* also when it raised, and one scan request (exactly one once the script is
\* past the scan).
C9_NoRetries ==
  /\ \A j \in 1..Len(trips) : Cardinality(Events(log, "call", "update", j)) <= 1
  /\ Cardinality(UpdateEvents(log, "call")) <= Len(trips)
  /\ Cardinality(Events(log, "call", "scan", 0)) <= 1
  /\ pc \in {"scan_wait", "loop", "update_wait", "done"} \/ exc \in {"ScanError", "KeyError"}
       => Cardinality(Events(log, "call", "scan", 0)) = 1

\* C9's case: an update request raised and the run ended without a second
\* request for that item.
C9_Witness ==
  /\ pc = "done"
  /\ UpdateEvents(log, "err") # {}

\* C10: when creating the session or the scan raises, the script ends in
\* an error with no update request sent, no record changed and no summary
\* printed, and takes no further step.
C10_StartupFailureEndsRun ==
  StartupFailure =>
    /\ pc = "crashed"
    /\ exc \in {"SessionError", "ScanError"}
    /\ UpdateEvents(log, "call") = {}
    /\ inflight = {}
    /\ hist = <<>>
    /\ table = pre
    /\ ~summary.printed
    /\ ~ENABLED RunStep

\* C10's case: the scan raised over a table holding a record the loop
\* would have updated.
C10_Witness ==
  /\ Events(log, "err", "scan", 0) # {}
  /\ \E k \in DOMAIN table : Mapped(ScanItem(table, k))

====
